---------------------------- MODULE Spec2Model ----------------------------
(***************************************************************************)
(* A model of src/scraper.py: the batch orchestrator run(), with the       *)
(* checkpoint store (get_state_last_node / set_state_last_node), the       *)
(* ingestion client (post_to_app), the anti-bot viewer retry               *)
(* (open_viewer_with_retry) and the session bootstrap / restart.           *)
(*                                                                         *)
(* The web site, the checkpoint backend and the ingestion backend are the  *)
(* environment: every call to them has its outcome drawn from the          *)
(* outcomes the code distinguishes (a URL the page lands on, a raised      *)
(* exception, an HTTP status class).                                       *)
(***************************************************************************)
EXTENDS Integers, Sequences, FiniteSets, TLC

\* ------------------------------------------------------------- bounds
\* Longest listing the printable page returns in the model.
MaxListing == 4
\* Largest RESTART_BROWSER_EVERY setting explored (0 disables the restart).
MaxRestartEvery == 2

\* -------------------------------------------------- program constants
\* MAX_LOTS setting of the run (an environment setting; 100 by default).
MAX_LOTS == 2
\* MAX_VIEWER_RETRIES setting of the run (3 by default).
MAX_VIEWER_RETRIES == 3
\* post_to_app: for attempt in range(1, 4).
INGEST_ATTEMPTS == 3

\* Python's None (also the falsy "no checkpoint").
None == 0

\* ------------------------------------------------------------- state
VARIABLES
  \* configuration (module-level settings, fixed for a run)
  SEND_TO_APP, USE_STATE, START_AFTER_LAST_NODE,
  SKIP_IF_ADDRESS_NOT_NUMBERED, RESTART_BROWSER_EVERY,
  \* environment
  listing,        \* the ordered lots of the printable page
  store,          \* last_node held by the checkpoint backend
  \* run()'s locals
  pc,             \* position in run()
  last_node,      \* checkpoint read at run start
  selected,       \* the batch: lots[:MAX_LOTS] after the resume slice
  idx,            \* 1-based cursor of the for loop (0 before the loop)
  node,           \* lot["node"] of the record in hand
  viewer_url,     \* page the last viewer open ended on
  attempt,        \* attempt of open_viewer_with_retry / post_to_app
  ingest_result,  \* what post_to_app returned
  ingest_ok,      \* run()'s ingest_ok
  session,        \* number of live browser sessions
  printable_url,  \* whose listing URL printable_url holds: "" (none yet),
                  \* "current" (the live session's) or "stale"
  \* what happened to the record in hand (read by the properties only)
  rec,            \* counters of the record in hand, see Rec0
  postLog,        \* outcomes of the POSTs of the post_to_app call in hand
  waits,          \* seconds slept after each of them
  \* what happened earlier in the run (read by the properties only)
  prev,           \* how the last finished record ended (its cause)
  ingested,       \* nodes whose ingest call returned success
  ckptLog,        \* nodes written to the checkpoint backend, in order
  workLog,        \* node of each iteration that opened a viewer, in order
  sessionLost,    \* the session in use was lost (a navigation ended on
                  \* the Disclaimer or the SearchForm) and not rebuilt since
  \* run()'s locals between the document and the ingest call
  acq,            \* how the text of the record in hand was acquired
  addr,           \* what parse_best_address_from_text returned
  resp,           \* pdf_resp: the answer to the document GET
  payload,        \* the record handed to post_to_app
  \* the ingestion backend's records
  known,          \* nodes the backend held a record of before the run
  removed,        \* nodes whose record a request of the run marked removed
  \* a call of one of the module's pure functions on its own
  fn,             \* the function called ("none" while run() is modelled)
  fin,            \* its argument
  fout            \* what it returned

cfgvars == <<SEND_TO_APP, USE_STATE, START_AFTER_LAST_NODE,
             SKIP_IF_ADDRESS_NOT_NUMBERED, RESTART_BROWSER_EVERY, listing>>
sessvars == <<session, printable_url, sessionLost>>
postvars == <<attempt, ingest_result, ingest_ok, postLog, waits>>
pastvars == <<prev, ingested, ckptLog>>
extvars == <<acq, addr, resp>>
fnvars == <<fn, fin, fout>>
backvars == <<known, removed>>
vars == <<SEND_TO_APP, USE_STATE, START_AFTER_LAST_NODE,
          SKIP_IF_ADDRESS_NOT_NUMBERED, RESTART_BROWSER_EVERY, listing,
          store, pc, last_node, selected, idx, node, viewer_url, attempt,
          ingest_result, ingest_ok, session, printable_url, rec,
          postLog, waits, prev, ingested, ckptLog, workLog, sessionLost,
          acq, addr, resp, payload, known, removed, fn, fin, fout>>

\* --------------------------------------------------------- the listing
\* Node keys are opaque; the listing shows them in an order that is not
\* the order of the keys (here: descending keys).
NodeAt(i) == MaxListing + 1 - i
Nodes == 1..MaxListing
\* A key no listing holds (a record that rotated off).
AbsentNode == MaxListing + 1
\* The printable page shows no lot at all, or MaxListing lots; batches of
\* every shorter length arise from the resume slice.
Listings == { [i \in 1..n |-> NodeAt(i)] : n \in {0, MaxListing} }

Range(s) == { s[i] : i \in 1..Len(s) }
Min(a, b) == IF a <= b THEN a ELSE b

\* Position of the first lot whose node is x; 0 when there is none
\* (next((i for i, l in enumerate(lots) if l["node"] == last_node), None)).
FirstPos(lots, x) ==
  IF \E i \in 1..Len(lots) : lots[i] = x
  THEN CHOOSE i \in 1..Len(lots) :
         lots[i] = x /\ \A j \in 1..(i - 1) : lots[j] # x
  ELSE 0

\* A slip of line 552: lots[pos:], the checkpoint's own lot is kept.
AfterLastNode_Inclusive(lots, resume, ln) ==
  IF resume /\ ln # None /\ FirstPos(lots, ln) # 0
  THEN SubSeq(lots, FirstPos(lots, ln), Len(lots))
  ELSE lots

\* lots after the resume slice, lines 549-555.
AfterLastNode(lots, resume, ln) ==
  IF resume /\ ln # None /\ FirstPos(lots, ln) # 0
  THEN SubSeq(lots, FirstPos(lots, ln) + 1, Len(lots))
  ELSE lots

\* A slip of the truncation: the batch is not cut to MAX_LOTS.
SelectLots_NoCut(lots) == lots

\* selected = lots[:MAX_LOTS], line 557.
SelectLots(lots) == SubSeq(lots, 1, Min(MAX_LOTS, Len(lots)))

\* A slip of lines 549-555: the checkpoint read is not used and the
\* batch starts at the top of the listing.
Batch_FromTop(lots, resume, ln) == SelectLots(lots)

\* The batch run() processes for a listing and a checkpoint read.
Batch(lots, resume, ln) == SelectLots(AfterLastNode(lots, resume, ln))

\* ----------------------------------------------------------- helpers
\* Counters of the record in hand, all zero when the record is taken.
Rec0 == [opens |-> 0, backoffs |-> 0, relists |-> 0, fetches |-> 0,
         ckptCalls |-> 0, restarted |-> FALSE, worked |-> FALSE,
         cause |-> "none"]

\* A slip of lines 567 and 721: the restart keeps the listing URL the
\* first bootstrap captured.
UrlAfterBootstrap_Keep(old) == IF old = "" THEN "current" ELSE "stale"

\* A new session has been bootstrapped: printable_url is reassigned with
\* it (the tuple assignments of lines 540, 567 and 721).
UrlAfterBootstrap(old) == "current"

\* is_check_human(url): the URL is the Challenge Page's.
is_check_human(url) == url = "Challenge"

\* A navigation that ended on the Disclaimer or the SearchForm: the
\* server-side session is gone.
SessionLost(url) == url \in {"Disclaimer", "SearchForm"}

\* A slip of line 564: the test idx > 1 is left out.
RestartDue_FromFirst(i) ==
  /\ RESTART_BROWSER_EVERY > 0
  /\ (i - 1) % RESTART_BROWSER_EVERY = 0

\* Line 564: the periodic restart is due before record i.
RestartDue(i) ==
  /\ RESTART_BROWSER_EVERY > 0
  /\ i > 1
  /\ (i - 1) % RESTART_BROWSER_EVERY = 0

\* A slip of the loop: the cursor does not move.
NextIdx_Stay(i) == i

\* The for loop's cursor after record i.
NextIdx(i) == i + 1

\* workLog after work on node n: the first work of an iteration enters it.
Worked(log, n) == IF rec.worked THEN log ELSE Append(log, n)

\* sessionLost after a navigation that ended on url.
LostAfter(url) == sessionLost \/ SessionLost(url)

\* ------------------------------------------------------------- strings
\* Python's None where a string may stand: a value no text equals.
NoneText == "<None>"

IsDigit(c) == c \in {"0", "1", "2", "3", "4", "5", "6", "7", "8", "9"}
IsSpace(c) == c \in {" ", "\t", "\n", "\r"}

\* s[i - 1] of Python: the i-th character, as a string of length one.
At(s, i) == SubSeq(s, i, i)

RECURSIVE LStrip(_)
LStrip(s) ==
  IF s # "" /\ IsSpace(At(s, 1)) THEN LStrip(SubSeq(s, 2, Len(s))) ELSE s

RECURSIVE RStrip(_)
RStrip(s) ==
  IF s # "" /\ IsSpace(At(s, Len(s)))
  THEN RStrip(SubSeq(s, 1, Len(s) - 1))
  ELSE s

\* str.strip()
Strip(s) == RStrip(LStrip(s))

\* s.replace(",", "")
RECURSIVE RemoveCommas(_)
RemoveCommas(s) ==
  IF s = ""
  THEN ""
  ELSE LET c == At(s, 1)
           r == RemoveCommas(SubSeq(s, 2, Len(s)))
       IN IF c = "," THEN r ELSE c \o r

\* re.sub(r"[^0-9.]", "", s)
RECURSIVE KeepDigitsAndPoints(_)
KeepDigitsAndPoints(s) ==
  IF s = ""
  THEN ""
  ELSE LET c == At(s, 1)
           r == KeepDigitsAndPoints(SubSeq(s, 2, Len(s)))
       IN IF IsDigit(c) \/ c = "." THEN c \o r ELSE r

\* All strings over the characters cs of length at most n.
RECURSIVE StringsUpTo(_, _)
StringsUpTo(cs, n) ==
  IF n = 0
  THEN {""}
  ELSE LET S == StringsUpTo(cs, n - 1)
       IN S \cup {s \o c : s \in S, c \in cs}

\* str.lower() on the ASCII letters.
LowerChar(c) ==
  LET U == "ABCDEFGHIJKLMNOPQRSTUVWXYZ"
      L == "abcdefghijklmnopqrstuvwxyz"
  IN IF \E i \in 1..26 : At(U, i) = c
     THEN At(L, CHOOSE i \in 1..26 : At(U, i) = c)
     ELSE c

RECURSIVE Lower(_)
Lower(s) ==
  IF s = "" THEN "" ELSE LowerChar(At(s, 1)) \o Lower(SubSeq(s, 2, Len(s)))

\* sub in s
Contains(s, sub) ==
  \E i \in 1..(Len(s) - Len(sub) + 1) : SubSeq(s, i, i + Len(sub) - 1) = sub

\* s.endswith(suffix)
EndsWith(s, suffix) ==
  /\ Len(suffix) <= Len(s)
  /\ SubSeq(s, Len(s) - Len(suffix) + 1, Len(s)) = suffix

\* ---------------------------------------------------------- must_be_pdf
\* A slip of line 94: every response passes for a PDF.
must_be_pdf_Always(ct) == TRUE

\* Lines 92-94, on the content-type header ("" if the header is missing).
must_be_pdf(ct) ==
  \/ Contains(Lower(ct), "application/pdf")
  \/ EndsWith(Lower(ct), "/pdf")

\* The content types the document GET answers with.
ContentTypes ==
  {"application/pdf", "Application/PDF; charset=binary", "binary/pdf",
   "text/html", ""}

\* must_be_pdf on the content types of the model, tabulated once.
PdfByType == [t \in ContentTypes |-> must_be_pdf(t)]

\* pdf_resp: whether the status is OK (pdf_resp.ok), and the content type.
Responses ==
  {[ok |-> TRUE, ct |-> t] : t \in ContentTypes}
  \cup {[ok |-> FALSE, ct |-> "text/html"], [ok |-> FALSE, ct |-> "application/pdf"]}

\* pdf_resp before it is assigned.
Resp0 == [ok |-> FALSE, ct |-> ""]

\* ------------------------------------------- is_numbered_street_address
\* A slip of line 124: every non-empty line is accepted.
is_numbered_street_address_NonEmpty(street) ==
  street # NoneText /\ street # ""

\* Lines 112-124: None and "" are rejected; otherwise the stripped line
\* must match ^\d{1,6}\s+\S : one to six digits at its start, then
\* whitespace, then a character that is not whitespace.
is_numbered_street_address(street) ==
  IF street = NoneText \/ street = ""
  THEN FALSE
  ELSE LET a == Strip(street)
       IN \E k \in 1..6 : \E j \in 1..Len(a) :
            /\ k + j + 1 <= Len(a)
            /\ \A i \in 1..k : IsDigit(At(a, i))
            /\ \A i \in (k + 1)..(k + j) : IsSpace(At(a, i))
            /\ ~IsSpace(At(a, k + j + 1))

\* --------------------------------------------- normalize_bid_for_payload
\* A slip of line 221: an amount without a digit left becomes "0".
normalize_bid_for_payload_Zero(v) ==
  IF v = NoneText
  THEN NoneText
  ELSE LET cleaned == KeepDigitsAndPoints(RemoveCommas(Strip(v)))
       IN IF cleaned = "" THEN "0" ELSE cleaned

\* Lines 214-221: None and a blank string give None; otherwise the commas
\* are removed, then every character that is neither a digit nor a point;
\* an empty rest gives None.
normalize_bid_for_payload(v) ==
  IF v = NoneText
  THEN NoneText
  ELSE LET s == Strip(v)
       IN IF s = ""
          THEN NoneText
          ELSE LET cleaned == KeepDigitsAndPoints(RemoveCommas(s))
               IN IF cleaned = "" THEN NoneText ELSE cleaned

\* ------------------------------------------------------------- texts
\* A text is a sequence of segments, in reading order: a marker heading,
\* a "City, ST ZIP" pattern, or any other non-blank line.
Marker(name) == [k |-> "marker", v |-> name, st |-> "", z |-> ""]
CityLine(c, s, z) == [k |-> "city", v |-> c, st |-> s, z |-> z]
Line(s) == [k |-> "line", v |-> s, st |-> "", z |-> ""]

\* Lines 363-367: the markers, in the order they are tried.
MARKERS == <<"ADDRESS_ON_RECORD", "PHYSICAL_ADDRESS", "TITLE_HOLDER_ADDRESS">>

\* re.search(marker_re, text): the first place of the marker, 0 if none.
FirstMarker(text, name) ==
  IF \E i \in 1..Len(text) : text[i] = Marker(name)
  THEN CHOOSE i \in 1..Len(text) :
         /\ text[i] = Marker(name)
         /\ \A j \in 1..(i - 1) : text[j] # Marker(name)
  ELSE 0

\* re.search of the "City, ST ZIP" pattern: its first place, 0 if none.
FirstCity(text) ==
  IF \E i \in 1..Len(text) : text[i].k = "city"
  THEN CHOOSE i \in 1..Len(text) :
         /\ text[i].k = "city"
         /\ \A j \in 1..(i - 1) : text[j].k # "city"
  ELSE 0

\* text[mm.end():], line 374.
After(text, i) == SubSeq(text, i + 1, Len(text))

\* The markers (by rank in MARKERS) that occur in the text with a city
\* pattern after them: the others are passed over (lines 371-377).
UsableMarkers(text) ==
  {m \in 1..Len(MARKERS) :
     /\ FirstMarker(text, MARKERS[m]) # 0
     /\ FirstCity(After(text, FirstMarker(text, MARKERS[m]))) # 0}

\* A slip of the loop of line 369: the usable marker that comes first in
\* the text is taken.
ChosenMarker_ByPosition(text) ==
  IF UsableMarkers(text) = {}
  THEN 0
  ELSE CHOOSE m \in UsableMarkers(text) :
         \A o \in UsableMarkers(text) :
           FirstMarker(text, MARKERS[m]) <= FirstMarker(text, MARKERS[o])

\* Lines 369-377: the first marker of MARKERS that is usable, 0 if none.
ChosenMarker(text) ==
  IF UsableMarkers(text) = {}
  THEN 0
  ELSE CHOOSE m \in UsableMarkers(text) : \A o \in UsableMarkers(text) : m <= o

\* Lines 350-353: the last non-blank line before the city pattern.
ExtractStreetBeforeCity(block, c) ==
  IF c = 1 THEN NoneText ELSE block[c - 1].v

\* Lines 357-361 and 392-396: nothing found; the snippet is the leading
\* text (the model's texts are shorter than the 900 characters kept).
NotFound(text) ==
  [address |-> NoneText, city |-> NoneText, state |-> NoneText,
   zip |-> NoneText, marker_used |-> NoneText, marker_found |-> FALSE,
   snippet |-> text]

\* Lines 379-388 and 398-407: the result built from the city pattern at
\* place c of block.
Found(block, c, marker) ==
  [address |-> ExtractStreetBeforeCity(block, c), city |-> block[c].v,
   state |-> block[c].st, zip |-> block[c].z, marker_used |-> marker,
   marker_found |-> TRUE, snippet |-> block]

\* A slip of line 391: without a usable marker nothing is searched.
Fallback_None(text) == NotFound(text)

\* Lines 390-407: the first city pattern of the whole text.
Fallback(text) ==
  IF FirstCity(text) = 0
  THEN NotFound(text)
  ELSE Found(text, FirstCity(text), "FALLBACK_FIRST_MATCH")

\* Lines 356-407.
parse_best_address_from_text(text) ==
  IF text = <<>>
  THEN NotFound(<<>>)
  ELSE IF ChosenMarker(text) # 0
       THEN LET name == MARKERS[ChosenMarker(text)]
                after == After(text, FirstMarker(text, name))
            IN Found(after, FirstCity(after), name)
       ELSE Fallback(text)

\* --------------------------------------------------- text acquisition
\* Most pages of a document in the model.
MaxPages == 3
\* OCR_MAX_PAGES setting of the run (an environment setting; 3 by default).
OCR_MAX_PAGES == 2

\* The texts the documents of the model carry.
RunTexts ==
  {<<Marker("PHYSICAL_ADDRESS"), Line("123 Main St"),
     CityLine("Orlando", "FL", "32801")>>,
   <<Marker("PHYSICAL_ADDRESS"), Line("Dill Rd"),
     CityLine("Orlando", "FL", "32801")>>,
   <<Marker("PHYSICAL_ADDRESS"), CityLine("Orlando", "FL", "32801")>>,
   <<Line("Main St"), CityLine("Apopka", "FL", "32703")>>,
   <<Line("NOTICE OF APPLICATION FOR TAX DEED")>>}

\* What goes wrong when the document is read.
Faults == {"none", "native_raises", "ocr_raises"}

\* A document of n pages: page i has the text T in its text layer (no
\* page if i = 0), page j shows it as an image (no page if j = 0).
DocOf(n, i, j, T, f) ==
  [pages |-> [p \in 1..n |-> [native |-> IF p = i THEN T ELSE <<>>,
                              ocr |-> IF p = j THEN T ELSE <<>>]],
   fault |-> f]

\* The documents of the model: every shape (pages, place of the text, fault)
\* with one text, and every text as the text layer of a one-page document.
Docs ==
  UNION {{DocOf(n, i, j, <<Line("Main St"), CityLine("Apopka", "FL", "32703")>>, f) :
            i \in {0, 1, n}, j \in {0, 1, n}, f \in Faults} :
         n \in 1..MaxPages}
  \cup {DocOf(1, 1, 0, T, "none") : T \in RunTexts}

\* The text layers of the first k pages, joined.
RECURSIVE NativeText(_, _)
NativeText(pages, k) ==
  IF k = 0 THEN <<>> ELSE NativeText(pages, k - 1) \o pages[k].native

\* The OCR texts of the first k pages, joined.
RECURSIVE OcrText(_, _)
OcrText(pages, k) ==
  IF k = 0 THEN <<>> ELSE OcrText(pages, k - 1) \o pages[k].ocr

\* Lines 320-330: the text layer of all pages; "" if reading raises.
try_pdfplumber_text(doc) ==
  IF doc.fault = "native_raises"
  THEN <<>>
  ELSE NativeText(doc.pages, Len(doc.pages))

\* A slip of line 336: every page is OCRed.
pages_to_do_All(n_pages, max_pages) == n_pages

\* Line 336.
pages_to_do(n_pages, max_pages) == Min(n_pages, max_pages)

\* Lines 333-347: the OCR text of the first pages_to_do pages.
ocr_pdf_bytes(doc, max_pages) ==
  OcrText(doc.pages, pages_to_do(Len(doc.pages), max_pages))

\* How the text of the record in hand was acquired: the pages of the
\* document, whether try_pdfplumber_text returned text, how the OCR ended
\* ("none" if it was not run) and the pages it rendered.
Acq0 == [n |-> 0, native |-> FALSE, ocr |-> "none", ocred |-> {}]

\* The facts of a document before the acquisition decides anything.
AcqOf(doc) ==
  [Acq0 EXCEPT !.n = Len(doc.pages),
               !.native = (try_pdfplumber_text(doc) # <<>>)]

\* Line 633: if text.
UseNative(text) == text # <<>>

\* Lines 632-647, the acquisition: the text layer first, else the OCR of
\* the first pages; an OCR that raises is caught.
Acquire(doc) ==
  IF UseNative(try_pdfplumber_text(doc))
  THEN AcqOf(doc)
  ELSE IF doc.fault = "ocr_raises"
       THEN [AcqOf(doc) EXCEPT !.ocr = "raised"]
       ELSE [AcqOf(doc) EXCEPT !.ocr = "ok",
               !.ocred = 1..pages_to_do(Len(doc.pages), OCR_MAX_PAGES)]

\* Lines 632-647, the address: resolved from the text that was acquired;
\* all absent if the OCR raised.
Resolve(doc) ==
  IF UseNative(try_pdfplumber_text(doc))
  THEN parse_best_address_from_text(try_pdfplumber_text(doc))
  ELSE IF doc.fault = "ocr_raises"
       THEN NotFound(<<>>)
       ELSE parse_best_address_from_text(ocr_pdf_bytes(doc, OCR_MAX_PAGES))

\* Acquire and Resolve on the documents of the model, tabulated once.
Acquired == {<<Acquire(d), Resolve(d)>> : d \in Docs}

\* is_numbered_street_address on the street lines resolved from them.
NumberedByStreet ==
  [a \in {r[2].address : r \in Acquired} |-> is_numbered_street_address(a)]

\* addr before it is assigned.
Addr0 == NotFound(<<>>)

\* A slip of lines 658-660: no note is written.
Notes_Never(a) == NoneText

\* Lines 658-660: the note of a record without a resolved address.
Notes(a) ==
  IF ~a.marker_found
  THEN "Address marker not found via OCR first pages."
  ELSE NoneText

\* Lines 662-685: the record sent to ingestion.
Payload(n, a) ==
  [node |-> n, address |-> a.address, city |-> a.city,
   state_address |-> a.state, zip |-> a.zip,
   address_source_marker |-> a.marker_used, status |-> "new",
   notes |-> Notes(a)]

\* payload before it is assigned.
Payload0 == Payload(None, Addr0)

\* ------------------------------------------------------------- Init
\* The records of the ingestion backend before the run, when there is a
\* backend: one of a lot that rotated off the listing and those of the
\* first two lots of the listing (earlier runs ingested them).
KnownBefore(send, lots) ==
  IF send
  THEN {AbsentNode} \cup {lots[i] : i \in 1..Min(2, Len(lots))}
  ELSE {}

Init ==
  /\ SEND_TO_APP \in BOOLEAN
  /\ USE_STATE \in BOOLEAN
  /\ START_AFTER_LAST_NODE \in BOOLEAN
  /\ SKIP_IF_ADDRESS_NOT_NUMBERED \in BOOLEAN
  /\ RESTART_BROWSER_EVERY \in 0..MaxRestartEvery
  /\ listing \in Listings
  \* without SUPABASE_URL and its key there is no checkpoint backend
  /\ store \in IF USE_STATE THEN {None, AbsentNode} \cup Range(listing)
                ELSE {None}
  /\ pc = "read_state"
  /\ last_node = None
  /\ selected = <<>>
  /\ idx = 0
  /\ node = None
  /\ viewer_url = ""
  /\ attempt = 0
  /\ ingest_result = "none"
  /\ ingest_ok = FALSE
  /\ session = 0
  /\ printable_url = ""
  /\ rec = Rec0
  /\ postLog = <<>>
  /\ waits = <<>>
  /\ prev = "none"
  /\ ingested = {}
  /\ ckptLog = <<>>
  /\ workLog = <<>>
  /\ sessionLost = FALSE
  /\ acq = Acq0
  /\ addr = Addr0
  /\ resp = Resp0
  /\ payload = Payload0
  /\ known = KnownBefore(SEND_TO_APP, listing)
  /\ removed = {}
  /\ fn = "none"
  /\ fin = NoneText
  /\ fout = NoneText

\* --------------------------------------------------- run(): the start
\* Lines 527-533: read the checkpoint once; a failed read is logged and
\* the run continues without state.
ReadState ==
  /\ pc = "read_state"
  /\ \E r \in {"ok", "raise"} :
       last_node' = IF USE_STATE /\ r = "ok" THEN store ELSE None
  /\ pc' = "bootstrap"
  /\ UNCHANGED <<cfgvars, backvars, fnvars, extvars, payload, store, selected,
                 idx, node, viewer_url, postvars,
                 sessvars, rec, pastvars, workLog>>

\* Line 540: the first bootstrap_to_printable; what it raises leaves run().
Bootstrap ==
  /\ pc = "bootstrap"
  /\ \E r \in {"ok", "raise"} :
       IF r = "ok"
       THEN /\ session' = session + 1
            /\ printable_url' = UrlAfterBootstrap(printable_url)
            /\ pc' = "extract"
       ELSE /\ pc' = "aborted"
            /\ UNCHANGED <<session, printable_url>>
  /\ UNCHANGED <<cfgvars, backvars, fnvars, extvars, payload, store,
                 last_node, selected, idx, node, viewer_url,
                 postvars, sessionLost, rec, pastvars, workLog>>

\* Lines 543-559: read the lots once, drop those up to the checkpoint,
\* keep the first MAX_LOTS.
ExtractLots ==
  /\ pc = "extract"
  /\ IF listing = <<>>
     THEN /\ session' = 0                      \* safe_close, then raise
          /\ pc' = "aborted"
          /\ UNCHANGED <<selected, idx>>
     ELSE /\ selected' = Batch(listing, START_AFTER_LAST_NODE, last_node)
          /\ idx' = 1
          /\ pc' = "loop"
          /\ UNCHANGED session
  /\ UNCHANGED <<cfgvars, backvars, fnvars, extvars, payload, store,
                 last_node, node, viewer_url, postvars,
                 printable_url, sessionLost, rec, pastvars, workLog>>

\* An exception leaves run(): its locals are dead.
Aborted ==
  /\ pc' = "aborted"
  /\ rec' = Rec0
  /\ viewer_url' = ""
  /\ attempt' = 0
  /\ ingest_result' = "none"
  /\ ingest_ok' = FALSE

\* ----------------------------------------------- run(): the for loop
\* The record in hand ends with outcome o and the loop moves on; the
\* locals of the iteration are dead from here on.
Finished(o) ==
  /\ prev' = o
  /\ rec' = Rec0
  /\ viewer_url' = ""
  /\ attempt' = 0
  /\ ingest_result' = "none"
  /\ ingest_ok' = FALSE
  /\ idx' = NextIdx(idx)
  /\ pc' = "loop"

\* Lines 725-726: the batch is exhausted; DONE, safe_close.
Finish ==
  /\ pc = "loop"
  /\ idx > Len(selected)
  /\ pc' = "done"
  /\ session' = 0
  /\ UNCHANGED <<cfgvars, backvars, fnvars, extvars, payload, store,
                 last_node, selected, idx, node, viewer_url,
                 postvars, printable_url, sessionLost, rec, pastvars,
                 workLog>>

\* Lines 563-567: every RESTART_BROWSER_EVERY records the session is
\* closed and bootstrapped again; what the bootstrap raises leaves run().
PeriodicRestart ==
  /\ pc = "loop"
  /\ idx <= Len(selected)
  /\ RestartDue(idx)
  /\ \E r \in {"ok", "raise"} :
       IF r = "ok"
       THEN /\ session' = (session - 1) + 1
            /\ printable_url' = UrlAfterBootstrap(printable_url)
            /\ sessionLost' = FALSE
            /\ pc' = "take"
       ELSE /\ session' = session - 1
            /\ pc' = "aborted"
            /\ UNCHANGED <<printable_url, sessionLost>>
  /\ UNCHANGED <<cfgvars, backvars, fnvars, extvars, payload, store,
                 last_node, selected, idx, node, viewer_url,
                 postvars, rec, pastvars, workLog>>

\* Lines 569-575: take the next lot of the batch.
TakeLot ==
  /\ \/ pc = "take"
     \/ pc = "loop" /\ idx <= Len(selected) /\ ~RestartDue(idx)
  /\ node' = selected[idx]
  /\ rec' = [Rec0 EXCEPT !.restarted = (pc = "take")]
  /\ attempt' = 1
  /\ pc' = "open_viewer"
  /\ UNCHANGED <<cfgvars, backvars, fnvars, extvars, payload, store,
                 last_node, selected, idx, viewer_url,
                 ingest_result, ingest_ok, postLog, waits, sessvars,
                 pastvars, workLog>>

\* ------------------------------------------- open_viewer_with_retry
\* A slip of line 498: range(1, MAX_VIEWER_RETRIES + 2), one attempt more.
ViewerRetryLeft_OneMore(a) == a <= MAX_VIEWER_RETRIES

\* Line 498: another attempt is left after this one.
ViewerRetryLeft(a) == a < MAX_VIEWER_RETRIES

\* Lines 499-505: open the viewer; return at once unless the page is the
\* Challenge Page. An exception is caught at line 710.
OpenViewer ==
  /\ pc = "open_viewer"
  /\ rec.opens < MAX_VIEWER_RETRIES + 2
  /\ workLog' = Worked(workLog, node)
  /\ \E url \in {"Viewer", "Challenge", "Disclaimer", "SearchForm", "raise"} :
       IF url = "raise"
       THEN /\ rec' = [rec EXCEPT !.opens = @ + 1, !.worked = TRUE,
                                  !.cause = "exception"]
            /\ pc' = "back"
            /\ UNCHANGED <<viewer_url, sessionLost>>
       ELSE /\ rec' = [rec EXCEPT !.opens = @ + 1, !.worked = TRUE]
            /\ viewer_url' = url
            /\ sessionLost' = LostAfter(url)
            /\ pc' = IF is_check_human(url) THEN "backoff" ELSE "find_pdf"
  /\ UNCHANGED <<cfgvars, backvars, fnvars, extvars, payload, store,
                 last_node, selected, idx, node, postvars,
                 session, printable_url, pastvars>>

\* A slip of lines 510-512: the wait is made but the listing is not
\* entered again before the next attempt.
Backoff_WaitOnly ==
  /\ pc = "backoff"
  /\ IF ViewerRetryLeft(attempt)
     THEN /\ rec' = [rec EXCEPT !.backoffs = @ + 1]
          /\ attempt' = attempt + 1
          /\ pc' = "open_viewer"
     ELSE /\ rec' = [rec EXCEPT !.backoffs = @ + 1, !.cause = "blocked"]
          /\ pc' = "skip_nav"
          /\ UNCHANGED attempt
  /\ UNCHANGED <<cfgvars, backvars, fnvars, extvars, payload, store,
                 last_node, selected, idx, node, viewer_url, ingest_result,
                 ingest_ok, postLog, waits, sessvars, pastvars, workLog>>

\* Lines 507-514 and 580-581: back off, return to the printable page, then
\* open again while attempts are left; after the last one the record is
\* blocked.
Backoff ==
  /\ pc = "backoff"
  /\ \E url \in {"Listing", "Disclaimer", "SearchForm", "raise"} :
       IF url = "raise"
       THEN /\ rec' = [rec EXCEPT !.backoffs = @ + 1, !.cause = "exception"]
            /\ pc' = "back"
            /\ UNCHANGED <<attempt, sessionLost>>
       ELSE /\ sessionLost' = LostAfter(url)
            /\ IF ViewerRetryLeft(attempt)
               THEN /\ rec' = [rec EXCEPT !.backoffs = @ + 1,
                                          !.relists = @ + 1]
                    /\ attempt' = attempt + 1
                    /\ pc' = "open_viewer"
               ELSE /\ rec' = [rec EXCEPT !.backoffs = @ + 1,
                                          !.relists = @ + 1,
                                          !.cause = "blocked"]
                    /\ pc' = "skip_nav"
                    /\ UNCHANGED attempt
  /\ UNCHANGED <<cfgvars, backvars, fnvars, extvars, payload, store,
                 last_node, selected, idx, node, viewer_url,
                 ingest_result, ingest_ok, postLog, waits, session,
                 printable_url, pastvars, workLog>>

\* ------------------------------------------------ run(): the document
\* Lines 588-602: look for the document link on the page in hand; a page
\* other than the viewer holds none. open_viewer_with_retry's attempt
\* counters end here, with the use of its result.
FindPdf ==
  /\ pc = "find_pdf"
  /\ \E r \in {"found", "missing", "raise"} :
       /\ r = "found" => viewer_url = "Viewer"
       /\ rec' = [rec EXCEPT !.opens = 0, !.backoffs = 0, !.relists = 0,
                              !.cause = CASE r = "missing" -> "no_link"
                                          [] r = "raise" -> "exception"
                                          [] OTHER -> @]
       /\ pc' = CASE r = "found" -> "fetch_pdf"
                  [] r = "missing" -> "skip_nav"
                  [] OTHER -> "back"
  /\ attempt' = 0
  /\ UNCHANGED <<cfgvars, backvars, fnvars, extvars, payload, store,
                 last_node, selected, idx, node, viewer_url,
                 ingest_result, ingest_ok, postLog, waits, sessvars,
                 pastvars, workLog>>

\* Lines 607-610: GET the document; what it raises is caught at line 710.
FetchPdf ==
  /\ pc = "fetch_pdf"
  /\ \/ /\ rec' = [rec EXCEPT !.fetches = @ + 1, !.cause = "exception"]
        /\ pc' = "back"
        /\ UNCHANGED resp
     \/ \E r \in Responses :
          /\ rec' = [rec EXCEPT !.fetches = @ + 1]
          /\ resp' = r
          /\ pc' = "check_pdf"
  /\ UNCHANGED <<cfgvars, backvars, fnvars, acq, addr, payload, store,
                 last_node,
                 selected, idx, node, viewer_url, postvars, sessvars,
                 pastvars, workLog>>

\* Lines 612-626: a response that is not OK or not a PDF skips the record;
\* pdf_resp is dead from here on (its body is read at line 628).
CheckPdf ==
  /\ pc = "check_pdf"
  /\ rec' = [rec EXCEPT !.cause = CASE ~resp.ok -> "bad_status"
                                    [] ~PdfByType[resp.ct] -> "not_pdf"
                                    [] OTHER -> @]
  /\ pc' = IF resp.ok /\ PdfByType[resp.ct] THEN "extract_text"
                                              ELSE "skip_nav"
  /\ resp' = Resp0
  /\ UNCHANGED <<cfgvars, backvars, fnvars, acq, addr, payload, store,
                 last_node,
                 selected, idx, node, viewer_url, postvars, sessvars,
                 pastvars, workLog>>

\* Lines 628-647: read the body and resolve the address from the text
\* layer, else from the OCR of the first pages; what else raises is
\* caught at line 710.
ExtractText ==
  /\ pc = "extract_text"
  /\ \/ /\ rec' = [rec EXCEPT !.cause = "exception"]
        /\ pc' = "back"
        /\ UNCHANGED <<acq, addr>>
     \/ \E r \in Acquired :
          /\ acq' = r[1]
          /\ addr' = r[2]
          /\ pc' = "filter"
          /\ UNCHANGED rec
  /\ UNCHANGED <<cfgvars, backvars, fnvars, resp, payload, store, last_node,
                 selected, idx,
                 node, viewer_url, postvars, sessvars, pastvars, workLog>>

\* Lines 649-685: the numbered-address filter skips the record, or the
\* payload is built; addr is dead from here on.
FilterAddress ==
  /\ pc = "filter"
  /\ IF SKIP_IF_ADDRESS_NOT_NUMBERED
        /\ ~NumberedByStreet[addr.address]
     THEN /\ rec' = [rec EXCEPT !.cause = "filtered"]
          /\ pc' = "skip_nav"
          /\ UNCHANGED <<attempt, payload>>
     ELSE /\ payload' = Payload(node, addr)
          /\ pc' = "ingest"
          /\ attempt' = 1
          /\ UNCHANGED rec
  /\ acq' = Acq0
  /\ addr' = Addr0
  /\ UNCHANGED <<cfgvars, backvars, fnvars, resp, store, last_node, selected,
                 idx, node,
                 viewer_url, ingest_result, ingest_ok, postLog, waits,
                 sessvars, pastvars, workLog>>

\* ------------------------------------------------------- post_to_app
\* What one POST to /api/ingest ends as: 200/201 with a body that is
\* truthy once parsed (or not JSON at all, which yields {"ok": True, ...}),
\* 200/201 with a JSON body that is falsy ({} or null), 401, another
\* status, or an exception of requests.post.
PostOutcomes == {"ok", "ok_empty", "401", "err", "raise"}

\* The entry postLog keeps for an outcome: lines 250 and 252 treat another
\* status and an exception alike.
PostLogged(r) == IF r \in {"err", "raise"} THEN "fail" ELSE r

\* Line 240: r.status_code in (200, 201).
PostAccepted(r) == r \in {"ok", "ok_empty"}

\* A slip of line 233: range(1, 5), one attempt more.
PostRetryLeft_OneMore(a) == a <= INGEST_ATTEMPTS

\* Line 233: range(1, 4) has another attempt after attempt a.
PostRetryLeft(a) == a < INGEST_ATTEMPTS

\* Lines 225-227: ingestion is disabled, post_to_app is not called by
\* run() (line 695).
IngestDisabled ==
  /\ pc = "ingest"
  /\ ~SEND_TO_APP
  /\ ingest_result' = "none"
  /\ pc' = "ingested"
  /\ payload' = Payload0
  /\ UNCHANGED <<cfgvars, backvars, fnvars, extvars, store, last_node,
                 selected, idx, node, viewer_url,
                 attempt, ingest_ok, postLog, waits, sessvars, rec, pastvars,
                 workLog>>

\* Lines 233-257: one attempt of the POST loop.
PostAttempt ==
  /\ pc = "ingest"
  /\ SEND_TO_APP
  /\ Len(postLog) < INGEST_ATTEMPTS + 2
  /\ \E r \in PostOutcomes :
       /\ postLog' = Append(postLog, PostLogged(r))
       /\ IF PostAccepted(r)
          THEN /\ ingest_result' = IF r = "ok" THEN "dict" ELSE "empty"
               /\ ingested' = IF r = "ok" THEN ingested \cup {node}
                                           ELSE ingested
               /\ pc' = "ingested"
               /\ UNCHANGED <<attempt, waits>>
          ELSE IF r = "401"
          THEN /\ ingest_result' = "none"
               /\ pc' = "ingested"
               /\ UNCHANGED <<attempt, waits, ingested>>
          ELSE /\ waits' = Append(waits, attempt)     \* time.sleep(1.0 * attempt)
               /\ UNCHANGED ingested
               /\ IF PostRetryLeft(attempt)
                  THEN /\ attempt' = attempt + 1
                       /\ UNCHANGED <<pc, ingest_result>>
                  ELSE /\ ingest_result' = "none"
                       /\ pc' = "ingested"
                       /\ UNCHANGED attempt
  \* the payload is dead once post_to_app has returned
  /\ payload' = IF pc' = "ingest" THEN payload ELSE Payload0
  /\ UNCHANGED <<cfgvars, backvars, fnvars, extvars, store, last_node,
                 selected, idx, node, viewer_url,
                 ingest_ok, sessvars, rec, prev, ckptLog, workLog>>

\* A slip of lines 693-697: the result of post_to_app is not looked at.
IngestOk_Always(send, result) == TRUE

\* bool(ingest_result): None and an empty body are falsy.
Truthy(result) == result = "dict"

\* Lines 693-697: ingest_ok is True when ingestion is disabled, else the
\* truth of what post_to_app returned.
IngestOk(send, result) == IF send THEN Truthy(result) ELSE TRUE

\* Lines 697-703: post_to_app has returned; the checkpoint is written only
\* if ingest_ok. The call's result and logs are dead from here on.
AfterIngest ==
  /\ pc = "ingested"
  /\ ingest_ok' = IngestOk(SEND_TO_APP, ingest_result)
  /\ IF ingest_ok'
     THEN /\ pc' = "set_state"
          /\ UNCHANGED rec
     ELSE /\ pc' = "back"
          /\ rec' = [rec EXCEPT !.cause =
                       IF Len(postLog) > 0 /\ postLog[Len(postLog)] = "401"
                       THEN "unauthorized" ELSE "ingest_failed"]
  /\ postLog' = <<>>
  /\ waits' = <<>>
  /\ attempt' = 0
  /\ ingest_result' = "none"
  /\ UNCHANGED <<cfgvars, backvars, fnvars, extvars, payload, store,
                 last_node, selected, idx, node, viewer_url,
                 sessvars, pastvars, workLog>>

\* ----------------------------------------------- set_state_last_node
\* The requests of one write: POST and PATCH in schema A, then in schema B.
STATE_REQUESTS == 4

\* A slip of lines 703-708: the write is made outside the try, so the
\* RuntimeError of a rejected write leaves run().
SetState_Raises ==
  /\ pc = "set_state"
  /\ IF USE_STATE
     THEN \E k \in 0..STATE_REQUESTS :
            IF k > 0
            THEN /\ rec' = [rec EXCEPT !.ckptCalls = @ + 1,
                                       !.cause = "completed"]
                 /\ store' = node
                 /\ ckptLog' = Append(ckptLog, node)
                 /\ pc' = "back"
                 /\ UNCHANGED <<viewer_url, attempt, ingest_result, ingest_ok>>
            ELSE /\ Aborted
                 /\ UNCHANGED <<store, ckptLog>>
     ELSE /\ rec' = [rec EXCEPT !.ckptCalls = @ + 1, !.cause = "completed"]
          /\ pc' = "back"
          /\ UNCHANGED <<store, ckptLog, viewer_url, attempt, ingest_result,
                         ingest_ok>>
  /\ UNCHANGED <<cfgvars, backvars, fnvars, extvars, payload, last_node,
                 selected, idx,
                 node, postLog, waits, sessvars, prev, ingested, workLog>>

\* Lines 703-708 with 177-208: write the node; the first accepted request
\* ends the write (k is its number, 0 when all are rejected or one raises);
\* a failure is logged only.
SetState ==
  /\ pc = "set_state"
  /\ IF USE_STATE
     THEN /\ \E k \in 0..STATE_REQUESTS :
               /\ rec' = [rec EXCEPT !.ckptCalls = @ + 1,
                                     !.cause = "completed"]
               /\ IF k > 0
                  THEN /\ store' = node
                       /\ ckptLog' = Append(ckptLog, node)
                  ELSE UNCHANGED <<store, ckptLog>>
     ELSE /\ rec' = [rec EXCEPT !.ckptCalls = @ + 1, !.cause = "completed"]
          /\ UNCHANGED <<store, ckptLog>>
  /\ pc' = "back"
  /\ UNCHANGED <<cfgvars, backvars, fnvars, extvars, payload, last_node,
                 selected, idx, node, viewer_url,
                 postvars, sessvars, prev, ingested, workLog>>

\* ------------------------------------------ run(): back to the listing
\* The continue branches (lines 583-586, 599-602, 615-618, 623-626,
\* 653-656): return to the printable page and go on with the next lot; an
\* exception is caught at line 710.
SkipNav ==
  /\ pc = "skip_nav"
  /\ \E url \in {"Listing", "Disclaimer", "SearchForm", "raise"} :
       IF url = "raise"
       THEN /\ pc' = "back"
            /\ UNCHANGED <<idx, rec, prev, sessionLost, viewer_url,
                           attempt, ingest_result, ingest_ok>>
       ELSE /\ sessionLost' = LostAfter(url)
            /\ Finished(rec.cause)
  /\ UNCHANGED <<cfgvars, backvars, fnvars, extvars, payload, store,
                 last_node, selected, node, postLog, waits,
                 session, printable_url, ingested, ckptLog, workLog>>

\* Lines 713-723: return to the printable page; if that raises, close the
\* session and bootstrap a new one; what the bootstrap raises leaves run().
Back ==
  /\ pc = "back"
  /\ \E url \in {"Listing", "Disclaimer", "SearchForm", "raise", "raise_raise"} :
       CASE url = "raise" ->
              /\ session' = (session - 1) + 1
              /\ printable_url' = UrlAfterBootstrap(printable_url)
              /\ sessionLost' = FALSE
              /\ Finished(rec.cause)
         [] url = "raise_raise" ->
              /\ session' = session - 1
              /\ Aborted
              /\ UNCHANGED <<printable_url, sessionLost, idx, prev>>
         [] OTHER ->
              /\ sessionLost' = LostAfter(url)
              /\ Finished(rec.cause)
              /\ UNCHANGED <<session, printable_url>>
  /\ UNCHANGED <<cfgvars, backvars, fnvars, extvars, payload, store,
                 last_node, selected, node, postLog, waits,
                 ingested, ckptLog, workLog>>

\* ------------------------------------------------------- specification
Next ==
  \/ ReadState
  \/ Bootstrap
  \/ ExtractLots
  \/ Finish
  \/ PeriodicRestart
  \/ TakeLot
  \/ OpenViewer
  \/ Backoff
  \/ FindPdf
  \/ FetchPdf
  \/ CheckPdf
  \/ ExtractText
  \/ FilterAddress
  \/ IngestDisabled
  \/ PostAttempt
  \/ AfterIngest
  \/ SetState
  \/ SkipNav
  \/ Back

Spec == Init /\ [][Next]_vars

\* run() where every browser and HTTP call returns or raises: a step that
\* can be taken is taken in the end.
SpecLive == Spec /\ WF_vars(Next)

\* ------------------------------------ the pure functions on their own
\* Longest text (in segments) handed to parse_best_address_from_text.
MaxTextLen == 5
\* Longest amount (in characters) handed to normalize_bid_for_payload.
MaxBidLen == 4

\* The segments of the texts: the three markers, two city patterns with
\* different values, a street line.
Segments ==
  {Marker(MARKERS[m]) : m \in 1..Len(MARKERS)}
  \cup {CityLine("Orlando", "FL", "32801"), CityLine("Apopka", "FL", "32703"),
        Line("123 Main St")}

\* Every text of at most MaxTextLen segments.
FnTexts == UNION {[1..k -> Segments] : k \in 0..MaxTextLen}

\* Every amount of at most MaxBidLen characters of a money field, the
\* absent amount and some longer ones.
BidInputs ==
  StringsUpTo({"$", "1", "0", ",", ".", " "}, MaxBidLen)
  \cup {NoneText, "$3,432.29", "3,432.29", "0.00", "abc", "N/A"}

\* run() is not running: its state is the initial one of a run without
\* backends over an empty listing.
InitFn ==
  /\ SEND_TO_APP = FALSE
  /\ USE_STATE = FALSE
  /\ START_AFTER_LAST_NODE = FALSE
  /\ SKIP_IF_ADDRESS_NOT_NUMBERED = FALSE
  /\ RESTART_BROWSER_EVERY = 0
  /\ listing = <<>>
  /\ store = None
  /\ pc = "read_state"
  /\ last_node = None
  /\ selected = <<>>
  /\ idx = 0
  /\ node = None
  /\ viewer_url = ""
  /\ attempt = 0
  /\ ingest_result = "none"
  /\ ingest_ok = FALSE
  /\ session = 0
  /\ printable_url = ""
  /\ rec = Rec0
  /\ postLog = <<>>
  /\ waits = <<>>
  /\ prev = "none"
  /\ ingested = {}
  /\ ckptLog = <<>>
  /\ workLog = <<>>
  /\ sessionLost = FALSE
  /\ acq = Acq0
  /\ addr = Addr0
  /\ resp = Resp0
  /\ payload = Payload0
  /\ known = {}
  /\ removed = {}
  /\ fn = "none"
  /\ fin = NoneText
  /\ fout = NoneText

\* The variables of run().
runvars == <<cfgvars, store, pc, last_node, selected, idx, node, viewer_url,
             postvars, sessvars, rec, pastvars, workLog, extvars, payload,
             backvars>>

\* parse_best_address_from_text is called on a text.
CallParseAddress ==
  /\ fn = "none"
  /\ \E t \in FnTexts :
       /\ fin' = t
       /\ fout' = parse_best_address_from_text(t)
  /\ fn' = "parse_best_address_from_text"
  /\ UNCHANGED runvars

\* normalize_bid_for_payload is called on an amount.
CallNormalizeBid ==
  /\ fn = "none"
  /\ \E v \in BidInputs :
       /\ fin' = v
       /\ fout' = normalize_bid_for_payload(v)
  /\ fn' = "normalize_bid_for_payload"
  /\ UNCHANGED runvars

\* MAX_LOTS as the module sets it when the environment does not (line 25):
\* the positions human_backoff is called with in such a run.
DEFAULT_MAX_LOTS == 100

\* Line 103's cap on the base delay, in hundredths of a second.
BACKOFF_CAP == 2200

\* A slip of line 103: the attempt plays no part in the base delay.
human_backoff_base_NoAttempt(i, a) == Min(500 + 15 * i, BACKOFF_CAP)

\* Line 103: base = min(5 + idx * 0.15 + attempt * 2.0, 22), in hundredths
\* of a second.
human_backoff_base(i, a) == Min(500 + 15 * i + 200 * a, BACKOFF_CAP)

\* Line 104: random.uniform(0.6, 3.0), in hundredths of a second; the two
\* ends and a value in between.
Jitters == {60, 180, 300}

\* human_backoff is called for record i and attempt a (lines 101-106): a
\* first call, or a second one after it, the first kept for comparison.
CallHumanBackoff ==
  /\ \/ fn = "none" /\ fn' = "human_backoff"
     \/ fn = "human_backoff" /\ Len(fin) = 1 /\ fn' = fn
  /\ \E i \in 1..DEFAULT_MAX_LOTS, a \in 1..MAX_VIEWER_RETRIES, j \in Jitters :
       LET call == [idx |-> i, attempt |-> a]
           wait == [base |-> human_backoff_base(i, a),
                    sleep_s |-> human_backoff_base(i, a) + j]
       IN IF fn = "none"
          THEN fin' = <<call>> /\ fout' = <<wait>>
          ELSE fin' = Append(fin, call) /\ fout' = Append(fout, wait)
  /\ UNCHANGED runvars

\* The call has returned and its result has been used.
Return ==
  /\ fn # "none"
  /\ fn' = "none"
  /\ fin' = NoneText
  /\ fout' = NoneText
  /\ UNCHANGED runvars

NextFn ==
  \/ CallParseAddress
  \/ CallNormalizeBid
  \/ CallHumanBackoff
  \/ Return

SpecFn == InitFn /\ [][NextFn]_vars

\* ============================================================ claims
\* Position of node n in the listing (0: not listed).
Pos(n) == FirstPos(listing, n)

\* Positions of run() inside an iteration of the for loop, after the lot
\* has been taken.
InRecord == {"open_viewer", "backoff", "find_pdf", "fetch_pdf", "check_pdf",
             "extract_text", "filter", "ingest", "ingested", "set_state", "skip_nav",
             "back"}

\* C1: checkpoint resume. Once the batch is chosen: if resume is enabled
\* and the checkpoint the run read is the node at position k of the
\* listing, the batch is the lots at positions k+1, k+2, ... cut to the
\* first MAX_LOTS of them; if it is not listed, or none was read, or resume
\* is disabled, the batch starts at the top (k = 0). The checkpoint is read
\* once, from the store, and is None when the store is not in use or the
\* read failed.
C1_CheckpointResume ==
  /\ pc = "bootstrap" =>
       /\ last_node \in {None, store}
       /\ ~USE_STATE => last_node = None
  /\ idx >= 1 =>
       LET L == Len(listing)
           hit == /\ START_AFTER_LAST_NODE
                  /\ last_node # None
                  /\ \E j \in 1..L : listing[j] = last_node
           k == IF hit THEN CHOOSE j \in 1..L : listing[j] = last_node ELSE 0
           n == IF L - k <= MAX_LOTS THEN L - k ELSE MAX_LOTS
       IN  /\ Len(selected) = n
           /\ \A i \in 1..n : selected[i] = listing[k + i]

\* C1 witness: a run resumed after the first lot of a listing that still
\* holds more than MAX_LOTS further lots has processed its whole batch.
C1_Witness ==
  /\ pc = "done"
  /\ START_AFTER_LAST_NODE
  /\ last_node = listing[1]
  /\ Len(listing) - 1 > MAX_LOTS
  /\ Len(selected) = MAX_LOTS
  /\ selected[1] = listing[2]

\* C2: the checkpoint is written only after the record's ingestion
\* succeeded or with ingestion disabled: set_state_last_node is called for
\* the record in hand only with ingest_ok, which with ingestion enabled
\* means the backend accepted the record; every change of the store is a
\* write of the node in hand made under that condition; a record that
\* failed or was skipped has no checkpoint call.
C2_CheckpointAfterIngest ==
  /\ [](rec.ckptCalls > 0 =>
          /\ ingest_ok
          /\ SEND_TO_APP => node \in ingested)
  /\ [](rec.cause \notin {"none", "completed"} => rec.ckptCalls = 0)
  /\ [](\A i \in 1..Len(ckptLog) : SEND_TO_APP => ckptLog[i] \in ingested)
  /\ [][store' # store =>
          /\ pc = "set_state"
          /\ store' = node
          /\ ingest_ok
          /\ SEND_TO_APP => node \in ingested]_vars

\* C2 witness: with ingestion enabled, the first record's ingest failed and
\* left no checkpoint; the second was ingested and its node written.
C2_Witness ==
  /\ SEND_TO_APP
  /\ prev = "ingest_failed"
  /\ rec.ckptCalls = 1
  /\ ckptLog = <<node>>
  /\ store = node

\* C3: anti-bot retry budget. The viewer is opened at most
\* MAX_VIEWER_RETRIES times for a record; a record is blocked only after
\* that many opens all ended on the Challenge Page, and then has no
\* document fetch, no POST and no checkpoint call; the skip of a blocked
\* record moves the loop to the next record (or, if the return to the
\* listing raises, to the common return at line 713).
C3_ChallengeBudget ==
  /\ [](rec.opens <= MAX_VIEWER_RETRIES)
  /\ [](rec.cause = "blocked" =>
          /\ rec.opens = MAX_VIEWER_RETRIES
          /\ rec.backoffs = MAX_VIEWER_RETRIES
          /\ is_check_human(viewer_url)
          /\ rec.fetches = 0
          /\ postLog = <<>>
          /\ rec.ckptCalls = 0
          /\ node \notin ingested
          /\ node \notin Range(ckptLog))
  /\ [][(pc = "skip_nav" /\ rec.cause = "blocked" /\ pc' # "back") =>
          /\ pc' = "loop"
          /\ idx' = idx + 1
          /\ prev' = "blocked"]_vars

\* C3 witness: the first record was blocked after MAX_VIEWER_RETRIES
\* challenges and the viewer of the second record has been opened.
C3_Witness ==
  /\ prev = "blocked"
  /\ idx = 2
  /\ pc = "find_pdf"
  /\ viewer_url = "Viewer"
  /\ rec.opens = 1

\* C4 (as claimed): a 401 ends the POSTs of its record and aborts the rest
\* of the batch: no POST follows a 401 in a post_to_app call, and once a
\* record has ended on a 401 no viewer is opened, no document fetched and
\* no POST made for a later record.
C4_UnauthorizedAbortsBatch ==
  /\ \A i \in 1..(Len(postLog) - 1) : postLog[i] # "401"
  /\ prev = "unauthorized" =>
       /\ rec.opens = 0
       /\ rec.fetches = 0
       /\ postLog = <<>>

\* C5 (as claimed): whatever fails while the batch is processed, the run
\* is never left by an exception once the loop has started.
C5_FailuresNonFatal == ~(pc = "aborted" /\ idx >= 1)

C7_StrictListingOrder ==
  /\ [](\A i \in 1..(Len(selected) - 1) : Pos(selected[i]) < Pos(selected[i + 1]))
  /\ [](/\ Len(workLog) <= Len(selected)
        /\ \A i \in 1..Len(workLog) : workLog[i] = selected[i])
  /\ [](pc \in InRecord =>
          /\ node = selected[idx]
          /\ Len(workLog) = IF rec.worked THEN idx ELSE idx - 1)
  /\ [](\A i \in 1..(Len(ckptLog) - 1) : Pos(ckptLog[i]) < Pos(ckptLog[i + 1]))
  /\ [][idx' = idx \/ idx' = idx + 1]_vars

\* C7 witness: a batch of two records, both worked on and both written to
\* the checkpoint, has ended.
C7_Witness ==
  /\ pc = "done"
  /\ Len(workLog) = 2
  /\ Len(ckptLog) = 2

\* C8: with K = RESTART_BROWSER_EVERY, the session is closed and
\* bootstrapped again right before record idx is taken exactly when K > 0,
\* idx > 1 and (idx - 1) mod K = 0, whatever happened to the records before.
C8_PeriodicRestart ==
  /\ [][(pc \in {"loop", "take"} /\ pc' = "open_viewer") =>
          ((pc = "take") <=>
             /\ RESTART_BROWSER_EVERY > 0
             /\ idx > 1
             /\ (idx - 1) % RESTART_BROWSER_EVERY = 0)]_vars
  /\ [][pc' = "take" =>
          /\ pc = "loop"
          /\ idx' = idx
          /\ session = 1
          /\ session' = 1
          /\ printable_url' = "current"
          /\ ~sessionLost']_vars
  /\ [](pc \in InRecord =>
          (rec.restarted <=>
             /\ RESTART_BROWSER_EVERY > 0
             /\ idx > 1
             /\ (idx - 1) % RESTART_BROWSER_EVERY = 0))

\* C8 witness: after a first record that failed with an exception, the
\* session was restarted before the second record, whose viewer is open.
C8_Witness ==
  /\ RESTART_BROWSER_EVERY = 1
  /\ idx = 2
  /\ prev = "exception"
  /\ rec.restarted
  /\ rec.opens = 1

\* C9 (as claimed): once a navigation has ended on the Disclaimer or the
\* SearchForm, no further record is processed before the session is
\* rebuilt: the first viewer open of a record is never made in a session
\* that was lost and not rebuilt.
C9_SessionLossRestarts ==
  [][(pc = "open_viewer" /\ pc' # pc /\ rec.opens = 0) => ~sessionLost]_vars

\* C10 (as claimed): at most 3 POSTs per call; the first 200/201 ends the
\* call with a result; every failed attempt i (any other status, or an
\* exception) is followed by a wait of i seconds; after the third failed
\* attempt the call returns None.
C10_UpsertRetryAsClaimed ==
  /\ Len(postLog) <= 3
  /\ \A i \in 1..(Len(postLog) - 1) : ~PostAccepted(postLog[i])
  /\ (pc = "ingested" /\ SEND_TO_APP) =>
       /\ \A i \in 1..Len(postLog) :
            ~PostAccepted(postLog[i]) => (i <= Len(waits) /\ waits[i] = i)
       /\ PostAccepted(postLog[Len(postLog)]) => ingest_result # "none"
       /\ ~PostAccepted(postLog[Len(postLog)]) => ingest_result = "none"

\* C10 (amended): at most 3 POSTs per call; the first 200/201 ends the call
\* with a result; a 401 ends the call at once with None, with no wait and
\* no further attempt; every other failed attempt i (another status, or an
\* exception) is followed by a wait of i seconds and, while i < 3, by
\* attempt i + 1; after the third failed attempt the call returns None.
C10_UpsertRetry ==
  /\ Len(postLog) <= 3
  /\ \A i \in 1..(Len(postLog) - 1) : postLog[i] = "fail"
  /\ Len(waits) = Cardinality({i \in 1..Len(postLog) : postLog[i] = "fail"})
  /\ \A i \in 1..Len(waits) : waits[i] = i
  /\ (pc = "ingest" /\ SEND_TO_APP) =>
       /\ Len(postLog) < 3
       /\ attempt = Len(postLog) + 1
  /\ (pc = "ingested" /\ SEND_TO_APP) =>
       /\ Len(postLog) >= 1
       /\ PostAccepted(postLog[Len(postLog)]) => ingest_result # "none"
       /\ postLog[Len(postLog)] = "401" => ingest_result = "none"
       /\ postLog[Len(postLog)] = "fail" =>
            /\ Len(postLog) = 3
            /\ ingest_result = "none"

\* C10 witness: a call whose three attempts all failed has slept 1, 2 and
\* 3 seconds and returned None.
C10_Witness ==
  /\ pc = "ingested"
  /\ postLog = <<"fail", "fail", "fail">>
  /\ waits = <<1, 2, 3>>
  /\ ingest_result = "none"

\* C11 (as claimed): the OCR runs for a record only if the text layer of
\* all pages gave no text, and when it runs to its end it renders exactly
\* the first OCR_MAX_PAGES pages; with text from the text layer no page is
\* OCRed.
C11_NativeFirstExactOcr ==
  pc = "filter" =>
    /\ acq.ocr # "none" => ~acq.native
    /\ acq.native => (acq.ocr = "none" /\ acq.ocred = {})
    /\ acq.ocr = "ok" => acq.ocred = 1..OCR_MAX_PAGES

\* C11 (amended): the OCR runs for a record if and only if the text layer
\* of all pages gave no text, and when it runs to its end it renders
\* exactly the first min(pages of the document, OCR_MAX_PAGES) pages,
\* never more than OCR_MAX_PAGES; with text from the text layer no page is
\* OCRed.
C11_NativeFirstBoundedOcr ==
  pc = "filter" =>
    /\ acq.ocr # "none" <=> ~acq.native
    /\ acq.native => acq.ocred = {}
    /\ acq.ocr = "ok" =>
         /\ acq.ocred = 1..(IF acq.n < OCR_MAX_PAGES THEN acq.n
                                                     ELSE OCR_MAX_PAGES)
         /\ acq.ocred # {}
    /\ Cardinality(acq.ocred) <= OCR_MAX_PAGES

\* C11 witness: a document with more pages than OCR_MAX_PAGES and no text
\* layer has had its first OCR_MAX_PAGES pages OCRed.
C11_Witness ==
  /\ pc = "filter"
  /\ ~acq.native
  /\ acq.ocr = "ok"
  /\ acq.n > OCR_MAX_PAGES
  /\ acq.ocred = 1..OCR_MAX_PAGES

\* C12: a record whose text is empty or whose text has no address (the
\* resolver returns "not found") is not an error. With the numbered-address
\* filter off it goes to ingestion like any other record, its payload
\* carrying no address field and a non-empty note, and post_to_app POSTs
\* that payload at least once when ingestion is enabled; with the filter
\* on it is skipped: no payload is built and nothing is POSTed for it.
C12_NoAddressStillIngested ==
  /\ [][(pc = "filter" /\ ~addr.marker_found) =>
          IF SKIP_IF_ADDRESS_NOT_NUMBERED
          THEN /\ pc' = "skip_nav"
               /\ rec'.cause = "filtered"
               /\ payload' = Payload0
          ELSE /\ pc' = "ingest"
               /\ rec'.cause = "none"
               /\ payload'.node = node
               /\ payload'.address = NoneText
               /\ payload'.city = NoneText
               /\ payload'.state_address = NoneText
               /\ payload'.zip = NoneText
               /\ payload'.address_source_marker = NoneText
               /\ payload'.notes \notin {NoneText, ""}]_vars
  /\ [][(pc = "ingest" /\ pc' # "ingest" /\ SEND_TO_APP) =>
          Len(postLog') >= 1]_vars
  /\ [](pc = "ingest" => payload.node = node)
  /\ [](rec.cause = "filtered" => (postLog = <<>> /\ node \notin ingested))

\* C12 witness: a record without an address is being ingested: its payload
\* has no address and a note, and one POST of it has been made.
C12_Witness ==
  /\ pc = "ingest"
  /\ payload.node = node
  /\ payload.address = NoneText
  /\ payload.city = NoneText
  /\ payload.notes # NoneText
  /\ Len(postLog) = 1

\* The examples of C13: what is_numbered_street_address answers on them.
C13_Examples ==
  /\ is_numbered_street_address("123 Main St")
  /\ ~is_numbered_street_address("Main St")
  /\ ~is_numbered_street_address("Dill Rd")
  /\ ~is_numbered_street_address("")
  /\ ~is_numbered_street_address(NoneText)

\* C13: the numbered-address filter. is_numbered_street_address accepts
\* "123 Main St" and rejects "Main St", "Dill Rd", the empty string and
\* None, and a street line it accepts begins with a digit; with
\* SKIP_IF_ADDRESS_NOT_NUMBERED on, a record whose resolved street line is
\* rejected is skipped: no payload is built and nothing is POSTed for it,
\* no checkpoint write is made for it, and every payload that reaches
\* ingestion has a numbered street line.
C13_NumberedAddressFilter ==
  /\ [](C13_Examples)
  /\ [](pc = "filter" /\ is_numbered_street_address(addr.address) =>
          IsDigit(At(Strip(addr.address), 1)))
  /\ [][(/\ pc = "filter"
         /\ SKIP_IF_ADDRESS_NOT_NUMBERED
         /\ ~is_numbered_street_address(addr.address)) =>
          /\ pc' = "skip_nav"
          /\ rec'.cause = "filtered"
          /\ payload' = Payload0]_vars
  /\ [](rec.cause = "filtered" =>
          /\ postLog = <<>>
          /\ rec.ckptCalls = 0
          /\ node \notin ingested
          /\ node \notin Range(ckptLog))
  /\ [](pc = "ingest" /\ SKIP_IF_ADDRESS_NOT_NUMBERED =>
          is_numbered_street_address(payload.address))

\* C13 witness: the second record of a batch has been rejected by the
\* filter; the checkpoint still holds the first record's node.
C13_Witness ==
  /\ pc = "skip_nav"
  /\ rec.cause = "filtered"
  /\ idx = 2
  /\ ckptLog = <<selected[1]>>
  /\ store = selected[1]

\* The ways the document of a record fails to be acquired.
DocFailures == {"no_link", "bad_status", "not_pdf"}

\* C14: a document acquisition failure skips the record and returns to
\* the listing. A missing link, a response that is not OK or a content
\* type that is not a PDF's sends the record to the skip; the body is read
\* only from an OK response of a PDF type; for a record that failed this
\* way nothing is parsed, no payload is built, nothing is POSTed and no
\* checkpoint write is made; the skip navigates to printable_url and,
\* unless that navigation raises, the loop goes on with the next record.
C14_DocumentFailureSkips ==
  /\ [][pc = "find_pdf" /\ pc' = "skip_nav" => rec'.cause = "no_link"]_vars
  /\ [][pc = "check_pdf" =>
          IF /\ resp.ok
             /\ resp.ct \in {"application/pdf", "binary/pdf",
                             "Application/PDF; charset=binary"}
          THEN pc' = "extract_text" /\ rec'.cause = "none"
          ELSE /\ pc' = "skip_nav"
               /\ rec'.cause = IF resp.ok THEN "not_pdf" ELSE "bad_status"]_vars
  /\ [](rec.cause \in DocFailures =>
          /\ pc \in {"skip_nav", "back"}
          /\ acq = Acq0
          /\ addr = Addr0
          /\ payload = Payload0
          /\ postLog = <<>>
          /\ rec.ckptCalls = 0
          /\ node \notin ingested
          /\ node \notin Range(ckptLog))
  /\ [][(pc = "skip_nav" /\ rec.cause \in DocFailures /\ pc' # "back") =>
          /\ pc' = "loop"
          /\ idx' = idx + 1
          /\ prev' = rec.cause
          /\ printable_url' = printable_url
          /\ store' = store]_vars

\* C14 witness: the first record's response was not a PDF and the second
\* record's document has been read.
C14_Witness ==
  /\ prev = "not_pdf"
  /\ idx = 2
  /\ pc = "filter"
  /\ ckptLog = <<>>
  /\ ingested = {}


\* A marker is usable in a text when a city pattern stands somewhere
\* after its first occurrence.
C15_Usable(t, name) ==
  \E i \in 1..Len(t) :
    /\ t[i] = Marker(name)
    /\ \A h \in 1..(i - 1) : t[h] # Marker(name)
    /\ \E j \in (i + 1)..Len(t) : t[j].k = "city"

\* The place of the first city pattern after the first occurrence of
\* the marker.
C15_CityAfter(t, name) ==
  CHOOSE j \in 1..Len(t) :
    /\ t[j].k = "city"
    /\ \E i \in 1..(j - 1) :
         /\ t[i] = Marker(name)
         /\ \A h \in 1..(i - 1) : t[h] # Marker(name)
         /\ \A h \in (i + 1)..(j - 1) : t[h].k # "city"

\* C15: the address resolver prefers the markers in the fixed order
\* ADDRESS ON RECORD ON CURRENT TAX ROLL, PHYSICAL ADDRESS, TITLE HOLDER
\* AND ADDRESS OF RECORD, wherever they stand in the text: the result
\* names the first marker of that order that has a city pattern after
\* it, and its city, state and zip are those of the first city pattern
\* after that marker (so a physical-address block wins over a
\* title-holder block with other values, before or after it).
C15_MarkerPriority ==
  fn = "parse_best_address_from_text" =>
    \A m \in 1..Len(MARKERS) :
      ( /\ C15_Usable(fin, MARKERS[m])
        /\ \A o \in 1..(m - 1) : ~C15_Usable(fin, MARKERS[o]) )
      => /\ fout.marker_used = MARKERS[m]
         /\ fout.marker_found
         /\ fout.city = fin[C15_CityAfter(fin, MARKERS[m])].v
         /\ fout.state = fin[C15_CityAfter(fin, MARKERS[m])].st
         /\ fout.zip = fin[C15_CityAfter(fin, MARKERS[m])].z

\* The title-holder block comes first in the text and the
\* physical-address block, with another city and zip, wins.
C15_Witness ==
  /\ fn = "parse_best_address_from_text"
  /\ fin = <<Marker("TITLE_HOLDER_ADDRESS"),
             CityLine("Apopka", "FL", "32703"),
             Marker("PHYSICAL_ADDRESS"),
             Line("123 Main St"),
             CityLine("Orlando", "FL", "32801")>>
  /\ fout.marker_used = "PHYSICAL_ADDRESS"
  /\ fout.city = "Orlando"
  /\ fout.zip = "32801"
  /\ fout.address = "123 Main St"


\* The text holds no marker at all.
C16_NoMarker(t) == \A i \in 1..Len(t) : t[i].k # "marker"

\* The text holds no city pattern at all.
C16_NoCity(t) == \A i \in 1..Len(t) : t[i].k # "city"

\* C16: when no marker occurs anywhere in the text, the result is taken
\* from the first city pattern of the whole text and its source is the
\* fallback, which is none of the markers; when the text holds no city
\* pattern at all (the empty text included), nothing is found: every
\* address field is absent and the snippet is the leading text.
C16_Fallback ==
  fn = "parse_best_address_from_text" =>
    /\ (C16_NoMarker(fin) /\ ~C16_NoCity(fin)) =>
         \E j \in 1..Len(fin) :
           /\ fin[j].k = "city"
           /\ \A h \in 1..(j - 1) : fin[h].k # "city"
           /\ fout.city = fin[j].v
           /\ fout.state = fin[j].st
           /\ fout.zip = fin[j].z
           /\ fout.address = (IF j = 1 THEN NoneText ELSE fin[j - 1].v)
           /\ fout.marker_used = "FALLBACK_FIRST_MATCH"
           /\ \A m \in 1..Len(MARKERS) : fout.marker_used # MARKERS[m]
    /\ C16_NoCity(fin) =>
         /\ fout.address = NoneText
         /\ fout.city = NoneText
         /\ fout.state = NoneText
         /\ fout.zip = NoneText
         /\ fout.marker_used = NoneText
         /\ ~fout.marker_found
         /\ fout.snippet = fin

\* A text without markers and with two city patterns: the first one is
\* taken, as a fallback.
C16_Witness ==
  /\ fn = "parse_best_address_from_text"
  /\ fin = <<Line("123 Main St"), CityLine("Apopka", "FL", "32703"),
             CityLine("Orlando", "FL", "32801")>>
  /\ fout.marker_used = "FALLBACK_FIRST_MATCH"
  /\ fout.city = "Apopka"
  /\ fout.address = "123 Main St"


\* The places of an amount that hold a digit or a decimal point.
C17_Kept(s) == {i \in 1..Len(s) : IsDigit(At(s, i)) \/ At(s, i) = "."}

\* The k-th of those places.
C17_KeptAt(s, k) ==
  CHOOSE i \in C17_Kept(s) : Cardinality({j \in C17_Kept(s) : j <= i}) = k

\* The number of decimal points of an amount.
C17_Points(s) == Cardinality({i \in 1..Len(s) : At(s, i) = "."})

\* The amount holds a digit.
C17_HasDigit(s) == \E i \in 1..Len(s) : IsDigit(At(s, i))

C18_WriteFailed ==
  /\ pc = "back"
  /\ USE_STATE
  /\ rec.ckptCalls = 1
  /\ node \notin Range(ckptLog)

\* C18: a failed checkpoint write does not abort the batch.  Whatever
\* the checkpoint backend answers to the requests of a write, the run
\* goes on to the return to the listing with the same record, cursor and
\* batch, and a rejected write leaves the store as it was; from there
\* the loop moves on to the next lot of the batch, as after an accepted
\* write (unless the return to the listing fails on its own); and an
\* accepted write, after a rejected one too, stores the node of the
\* record in hand.
C18_FailedCheckpointNotFatal ==
  /\ [][pc = "set_state" =>
          /\ pc' = "back"
          /\ rec'.cause = "completed"
          /\ rec'.ckptCalls = 1
          /\ <<idx, node, selected>>' = <<idx, node, selected>>
          /\ (ckptLog' = ckptLog => store' = store)
          /\ (ckptLog' # ckptLog => store' = node /\ node = selected[idx])]_vars
  /\ [][(C18_WriteFailed /\ pc' # "aborted") =>
          /\ pc' = "loop"
          /\ prev' = "completed"
          /\ idx' = idx + 1
          /\ store' = store
          /\ selected' = selected]_vars
  /\ [](pc \in InRecord => node = selected[idx])

\* The write of the first record was rejected, the run went on, and the
\* write of the second record has just been accepted.
C18_Witness ==
  /\ pc = "back"
  /\ USE_STATE
  /\ idx = 2
  /\ selected[1] \notin Range(ckptLog)
  /\ selected[1] \in ingested
  /\ prev = "completed"
  /\ ckptLog = <<selected[2]>>
  /\ store = selected[2]


\* C19 (as claimed): when the run is done, the backend records marked
\* removed are exactly those of the nodes the backend knew that the
\* fresh listing does not hold.
C19_Reconciliation ==
  (pc = "done" /\ SEND_TO_APP) => removed = known \ Range(listing)


\* C20: the order of challenge handling in open_viewer_with_retry.  When
\* the viewer is about to be opened, every earlier open of the record
\* ended on the Challenge Page and was followed by one wait and one
\* return to the listing, so the three counts agree; a wait follows only
\* an open that ended on the Challenge Page, one wait and then one return
\* to the listing per challenge, before the next open; the first open
\* that ends elsewhere goes straight on with that page, with no wait and
\* no return to the listing after it.
C20_ChallengeHandlingOrder ==
  /\ [](pc = "open_viewer" =>
          /\ rec.opens = attempt - 1
          /\ rec.backoffs = rec.opens
          /\ rec.relists = rec.opens)
  /\ [](pc = "backoff" =>
          /\ viewer_url = "Challenge"
          /\ rec.opens = attempt
          /\ rec.backoffs = rec.opens - 1
          /\ rec.relists = rec.opens - 1)
  /\ [](pc = "find_pdf" =>
          /\ viewer_url # "Challenge"
          /\ rec.backoffs = rec.opens - 1
          /\ rec.relists = rec.opens - 1)
  /\ [][pc = "open_viewer" =>
          /\ rec'.backoffs = rec.backoffs
          /\ rec'.relists = rec.relists
          /\ pc' \in {"backoff", "find_pdf", "back"}
          /\ rec'.opens = rec.opens + 1
          /\ pc' = "backoff" => viewer_url' = "Challenge"
          /\ pc' = "find_pdf" => viewer_url' # "Challenge"
          /\ pc' = "back" => rec'.cause = "exception"]_vars
  /\ [][pc = "backoff" =>
          /\ rec'.backoffs = rec.backoffs + 1
          /\ rec'.opens = rec.opens
          /\ pc' \in {"open_viewer", "skip_nav", "back"}
          /\ pc' # "back" => rec'.relists = rec.relists + 1
          /\ pc' = "back" => rec'.cause = "exception"]_vars

\* The first open of a record ended on the Challenge Page, one wait and
\* one return to the listing followed, and the second open has ended on
\* the viewer.
C20_Witness ==
  /\ pc = "find_pdf"
  /\ viewer_url = "Viewer"
  /\ rec.opens = 2
  /\ rec.backoffs = 1
  /\ rec.relists = 1


\* C21 as stated: of two calls of human_backoff, the one with the later
\* attempt for the same record, or with the later record for the same
\* attempt, has the strictly greater base delay, and every wait is the
\* base plus 0.6 to 3.0 seconds.  It does not hold: the base delay stops
\* growing at 22 seconds.
C21_StrictlyIncreasing ==
  (fn = "human_backoff" /\ Len(fin) = 2) =>
    /\ (fin[1].idx = fin[2].idx /\ fin[1].attempt < fin[2].attempt)
         => fout[1].base < fout[2].base
    /\ (fin[1].idx < fin[2].idx /\ fin[1].attempt = fin[2].attempt)
         => fout[1].base < fout[2].base
    /\ \A k \in 1..2 : fout[k].sleep_s - fout[k].base \in 60..300

\* C21: the base delay never decreases with the record's position nor
\* with the attempt and never exceeds 22 seconds: of two calls, the one
\* with the later attempt for the same record, or with the later record
\* for the same attempt, has the strictly greater base delay unless both
\* are 22 seconds; below the cap one attempt more adds 2 seconds and one
\* position more 0.15 seconds; every wait is the base plus 0.6 to 3.0
\* seconds.
C21_IncreasingUpToCap ==
  fn = "human_backoff" =>
    /\ \A k \in 1..Len(fin) :
         /\ fout[k].base <= 2200
         /\ fout[k].base >= 500 + 15 + 200
         /\ fout[k].sleep_s - fout[k].base \in 60..300
    /\ Len(fin) = 2 =>
         /\ ( \/ fin[1].idx = fin[2].idx /\ fin[1].attempt < fin[2].attempt
              \/ fin[1].idx < fin[2].idx /\ fin[1].attempt = fin[2].attempt )
            => \/ fout[1].base < fout[2].base
               \/ fout[1].base = 2200 /\ fout[2].base = 2200
         /\ ( /\ fin[1].idx = fin[2].idx
              /\ fin[2].attempt = fin[1].attempt + 1
              /\ fout[2].base < 2200 )
            => fout[2].base = fout[1].base + 200
         /\ ( /\ fin[2].idx = fin[1].idx + 1
              /\ fin[1].attempt = fin[2].attempt
              /\ fout[2].base < 2200 )
            => fout[2].base = fout[1].base + 15

\* The first and the second attempt of the first record: 7.15 and 9.15
\* seconds of base delay.
C21_Witness ==
  /\ fn = "human_backoff"
  /\ Len(fin) = 2
  /\ fin[1] = [idx |-> 1, attempt |-> 1]
  /\ fin[2] = [idx |-> 1, attempt |-> 2]
  /\ fout[1].base = 715
  /\ fout[2].base = 915
  /\ fout[2].sleep_s = 915 + 60


\* C22: a single session.  At most one browser session is live at every
\* point of the run; from the first bootstrap until run() is left exactly
\* one is, and the listing URL in use is the one its bootstrap captured;
\* a restart, periodic or after a failed return to the listing, closes
\* the session before it bootstraps the next, so it replaces the session
\* and never adds one; when the run ends normally no session is left.
C22_SingleSession ==
  /\ [](session \in {0, 1})
  /\ [](pc \notin {"read_state", "bootstrap", "done", "aborted"} =>
          /\ session = 1
          /\ printable_url = "current")
  /\ [](pc = "done" => session = 0)
  /\ [][(pc \in {"loop", "back"} /\ pc' \in {"loop", "take"}) =>
          /\ session = 1
          /\ session' = 1
          /\ printable_url' = "current"]_vars
  /\ [][session' > session => (pc = "bootstrap" /\ session = 0)]_vars

\* A run over two lots with a restart before every record after the
\* first has ended normally: the session was replaced once and none is
\* left.
C22_Witness ==
  /\ pc = "done"
  /\ RESTART_BROWSER_EVERY = 1
  /\ Len(selected) = 2
  /\ Len(workLog) = 2
  /\ session = 0
  /\ printable_url = "current"


\* The outcomes of a record that was skipped or failed.
SkipCauses == {"blocked", "no_link", "bad_status", "not_pdf", "filtered",
               "ingest_failed", "unauthorized", "exception"}

\* A record after a skipped or failed one has been ingested and the run
\* is past its checkpoint call.
C23_IngestedAfterSkip ==
  /\ USE_STATE
  /\ pc = "back"
  /\ idx >= 2
  /\ prev \in SkipCauses
  /\ node \in ingested

\* The batch of a next run that reads the checkpoint as it stands, with
\* resume enabled and the listing unchanged.
C23_NextBatch == Range(Batch(listing, TRUE, store))

\* C23 as stated: when a record after a skipped or failed one has been
\* ingested, the checkpoint is that record and the next run's batch
\* holds neither the skipped record nor any lot before the ingested one.
\* It does not hold: the checkpoint write of the ingested record can be
\* rejected, which is only logged.
C23_SkippedPassedOver ==
  C23_IngestedAfterSkip =>
    /\ store = node
    /\ selected[idx - 1] \notin C23_NextBatch
    /\ \A m \in Range(listing) : Pos(m) < Pos(node) => m \notin C23_NextBatch

\* C23: when a record after a skipped or failed one has been ingested
\* and its checkpoint write accepted, the checkpoint is that record, the
\* skipped record stands before it in the listing, and the batch of a
\* next run that reads the checkpoint, with resume enabled and the
\* listing unchanged, holds neither the skipped record nor any lot up to
\* the ingested one.
C23_SkippedPassedOverWhenWritten ==
  (C23_IngestedAfterSkip /\ node \in Range(ckptLog)) =>
    /\ store = node
    /\ Pos(selected[idx - 1]) # 0
    /\ Pos(selected[idx - 1]) < Pos(node)
    /\ selected[idx - 1] \notin C23_NextBatch
    /\ \A m \in Range(listing) : Pos(m) <= Pos(node) => m \notin C23_NextBatch

\* The first record of the batch was skipped by the address filter, the
\* second was ingested and its node written to the checkpoint.
C23_Witness ==
  /\ C23_IngestedAfterSkip
  /\ prev = "filtered"
  /\ ckptLog = <<node>>
  /\ store = node
  /\ node = selected[2]
  /\ selected[1] \notin C23_NextBatch


\* C24: a bounded run.  With every call returning or raising, run() ends,
\* normally or by an exception; it works on at most MAX_LOTS records,
\* opens the viewer at most MAX_VIEWER_RETRIES times and posts at most 3
\* times for a record; no record is worked on twice and the cursor never
\* goes back, so no earlier record is visited again.
C24_BoundedRun ==
  /\ <>(pc \in {"done", "aborted"})
  /\ [](Len(workLog) <= MAX_LOTS)
  /\ [](idx <= MAX_LOTS + 1)
  /\ [](rec.opens <= MAX_VIEWER_RETRIES)
  /\ [](Len(postLog) <= 3)
  /\ [](\A i, j \in 1..Len(workLog) : i < j => workLog[i] # workLog[j])
  /\ [][idx' >= idx]_vars
  /\ [][node' # node => (node' = None \/ node' \notin Range(workLog))]_vars

\* The run has ended normally after MAX_LOTS records of a longer
\* listing, the last of them after three posts.
C24_Witness ==
  /\ pc = "done"
  /\ Len(listing) > MAX_LOTS
  /\ Len(workLog) = MAX_LOTS
  /\ idx = MAX_LOTS + 1
  /\ prev = "ingest_failed"

============================================================================
